---- MODULE Spec2Model ----
(***************************************************************************)
(* Model of nanochat/dist_utils.py: the three facade functions             *)
(* dist_enabled, get_rank_safe and get_world_size_safe over the external   *)
(* runtime torch.distributed.                                              *)
(*                                                                         *)
(* The external runtime is the four facts it reports (available,           *)
(* initialized, rank, world) plus a fault: the primitive, if any, that     *)
(* raises when it is invoked.  The facade is modelled one primitive        *)
(* invocation per step, so that the order of the invocations and the       *)
(* short circuit of `and` are visible.  The module has no thread of its    *)
(* own: the external facts change between facade calls, not inside one.    *)
(***************************************************************************)
EXTENDS Integers, Sequences, FiniteSets, TLC

VARIABLES
    available,      \* torch.distributed.is_available()
    initialized,    \* torch.distributed.is_initialized()
    rank,           \* what get_rank() reports once the group is initialized
    world,          \* what get_world_size() reports once initialized
    fault,          \* the primitive that raises when invoked, and the error
    op,             \* the facade function called last (or being executed)
    pc,             \* position inside the call, "idle" between calls
    enabled,        \* value dist_enabled() returned inside the current call
    result,         \* outcome of the last completed call
    invoked,        \* primitives invoked by the current call, in order
    prevOp,         \* history: the call before, its function
    prevResult,     \* history: the call before, its outcome
    changed,        \* history: external state changed since the last call began
    changedBetween, \* history: it changed between the two last calls
    sawDefault      \* history: some earlier call returned a default

ext == <<available, initialized, rank, world, fault>>
local == <<op, pc, enabled, result, invoked>>
hist == <<prevOp, prevResult, changed, changedBetween, sawDefault>>
vars == <<available, initialized, rank, world, fault, op, pc, enabled, result,
          invoked, prevOp, prevResult, changed, changedBetween, sawDefault>>

\* Largest world size the external runtime is given.
MaxWorld == 3

Ops == {"dist_enabled", "get_rank_safe", "get_world_size_safe"}
Prims == {"is_available", "is_initialized", "get_rank", "get_world_size"}
Errors == {"RuntimeError", "ValueError"}

NoFault == [prim |-> "none", err |-> "none"]
Faults == {NoFault} \cup [prim : Prims, err : Errors]

\* Outcomes of a call: a returned bool, a returned int, a raised exception.
RetBool(v) == [kind |-> "bool", b |-> v, n |-> 0, e |-> "none"]
RetInt(v) == [kind |-> "int", b |-> FALSE, n |-> v, e |-> "none"]
Raise(x) == [kind |-> "raise", b |-> FALSE, n |-> 0, e |-> x]
NoResult == [kind |-> "none", b |-> FALSE, n |-> 0, e |-> "none"]

\* `return 0` of get_rank_safe and `return 1` of get_world_size_safe.
DefaultRank == 0
WorldSizeSwapped == DefaultRank
DefaultWorldSize == 1

(***************************************************************************)
(* The external runtime's primitives: the set of outcomes an invocation    *)
(* can have in the current external state.  A rank or world-size query on  *)
(* an uninitialized group is undefined: any error or any number.           *)
(***************************************************************************)
is_available ==
    IF fault.prim = "is_available" THEN {Raise(fault.err)}
    ELSE {RetBool(available)}

is_initialized ==
    IF fault.prim = "is_initialized" THEN {Raise(fault.err)}
    ELSE {RetBool(initialized)}

Undefined == {Raise(x) : x \in Errors} \cup {RetInt(v) : v \in (0 - 1)..MaxWorld}

get_rank ==
    IF fault.prim = "get_rank" THEN {Raise(fault.err)}
    ELSE IF initialized THEN {RetInt(rank)}
    ELSE Undefined

get_world_size ==
    IF fault.prim = "get_world_size" THEN {Raise(fault.err)}
    ELSE IF initialized THEN {RetInt(world)}
    ELSE Undefined

Invocation(p, out) == [prim |-> p, init |-> initialized, out |-> out]

(***************************************************************************)
(* The facade.                                                             *)
(***************************************************************************)

\* A call that skips the check the first time it is made.
CallFirstDefault(o) ==
    /\ pc = "idle"
    /\ op' = o
    /\ IF op = "none"
       THEN pc' = "returned" /\ enabled' = "False"
       ELSE pc' = "is_available" /\ enabled' = "unset"
    /\ invoked' = <<>>
    /\ result' = NoResult
    /\ prevOp' = op
    /\ prevResult' = result
    /\ changedBetween' = changed
    /\ changed' = FALSE
    /\ UNCHANGED <<available, initialized, rank, world, fault, sawDefault>>

\* A call that reuses a False the previous call computed.
CallCachedFalse(o) ==
    /\ pc = "idle"
    /\ op' = o
    /\ IF enabled = "False" /\ result.kind # "raise"
       THEN pc' = "returned" /\ enabled' = "False"
       ELSE pc' = "is_available" /\ enabled' = "unset"
    /\ invoked' = <<>>
    /\ result' = NoResult
    /\ prevOp' = op
    /\ prevResult' = result
    /\ changedBetween' = changed
    /\ changed' = FALSE
    /\ UNCHANGED <<available, initialized, rank, world, fault, sawDefault>>

\* A call that relies on the True the caller's dist_enabled() just returned.
CallTrustsCaller(o) ==
    /\ pc = "idle"
    /\ op' = o
    /\ IF result = RetBool(TRUE) /\ o # "dist_enabled"
       THEN pc' = "returned" /\ enabled' = "True"
       ELSE pc' = "is_available" /\ enabled' = "unset"
    /\ invoked' = <<>>
    /\ result' = NoResult
    /\ prevOp' = op
    /\ prevResult' = result
    /\ changedBetween' = changed
    /\ changed' = FALSE
    /\ UNCHANGED <<available, initialized, rank, world, fault, sawDefault>>

\* Entry of dist_enabled / get_rank_safe / get_world_size_safe, up to the
\* evaluation of dist.is_available(): the import binds a local name, and
\* get_*_safe enters dist_enabled() first thing.
Call(o) ==
    /\ pc = "idle"
    /\ op' = o
    /\ pc' = "is_available"
    /\ enabled' = "unset"
    /\ invoked' = <<>>
    /\ result' = NoResult
    /\ prevOp' = op
    /\ prevResult' = result
    /\ changedBetween' = changed
    /\ changed' = FALSE
    /\ UNCHANGED <<available, initialized, rank, world, fault, sawDefault>>

\* `or` written for `and`.
IsAvailableOr ==
    /\ pc = "is_available"
    /\ \E out \in is_available :
        /\ invoked' = Append(invoked, Invocation("is_available", out))
        /\ IF out.kind = "raise"
           THEN pc' = "idle" /\ result' = out /\ enabled' = enabled
           ELSE IF out.b
           THEN pc' = "returned" /\ enabled' = "True" /\ result' = result
           ELSE pc' = "is_initialized" /\ enabled' = enabled /\ result' = result
    /\ UNCHANGED <<available, initialized, rank, world, fault, op>>
    /\ UNCHANGED hist

\* An exception of is_available() swallowed and read as "not available".
IsAvailableCatch ==
    /\ pc = "is_available"
    /\ \E out \in is_available :
        /\ invoked' = Append(invoked, Invocation("is_available", out))
        /\ IF out.kind = "raise" \/ ~out.b
           THEN pc' = "returned" /\ enabled' = "False"
           ELSE pc' = "is_initialized" /\ enabled' = enabled
    /\ UNCHANGED <<available, initialized, rank, world, fault, op, result>>
    /\ UNCHANGED hist

\* Left operand of `dist.is_available() and dist.is_initialized()`: a false
\* value is the value of the `and`, an exception leaves every frame.
IsAvailable ==
    /\ pc = "is_available"
    /\ \E out \in is_available :
        /\ invoked' = Append(invoked, Invocation("is_available", out))
        /\ IF out.kind = "raise"
           THEN pc' = "idle" /\ result' = out /\ enabled' = enabled
           ELSE IF out.b
           THEN pc' = "is_initialized" /\ enabled' = enabled /\ result' = result
           ELSE pc' = "returned" /\ enabled' = "False" /\ result' = result
    /\ UNCHANGED <<available, initialized, rank, world, fault, op>>
    /\ UNCHANGED hist

\* The result of is_initialized() ignored: available is taken as enabled.
IsInitializedIgnored ==
    /\ pc = "is_initialized"
    /\ \E out \in is_initialized :
        /\ invoked' = Append(invoked, Invocation("is_initialized", out))
        /\ IF out.kind = "raise"
           THEN pc' = "idle" /\ result' = out /\ enabled' = enabled
           ELSE pc' = "returned" /\ enabled' = "True" /\ result' = result
    /\ UNCHANGED <<available, initialized, rank, world, fault, op>>
    /\ UNCHANGED hist

\* Right operand of the `and`: its value is the value dist_enabled returns.
IsInitialized ==
    /\ pc = "is_initialized"
    /\ \E out \in is_initialized :
        /\ invoked' = Append(invoked, Invocation("is_initialized", out))
        /\ IF out.kind = "raise"
           THEN pc' = "idle" /\ result' = out /\ enabled' = enabled
           ELSE /\ pc' = "returned"
                /\ enabled' = (IF out.b THEN "True" ELSE "False")
                /\ result' = result
    /\ UNCHANGED <<available, initialized, rank, world, fault, op>>
    /\ UNCHANGED hist

Default(o) ==
    IF o = "get_rank_safe" THEN RetInt(DefaultRank) ELSE RetInt(DefaultWorldSize)

\* The `if dist_enabled():` left out: the runtime is queried in any case.
ReturnedUnguarded ==
    /\ pc = "returned"
    /\ IF op = "dist_enabled"
       THEN pc' = "idle" /\ result' = RetBool(enabled = "True")
       ELSE pc' = "query" /\ result' = result
    /\ sawDefault' = sawDefault
    /\ UNCHANGED <<available, initialized, rank, world, fault, op, enabled, invoked>>
    /\ UNCHANGED <<prevOp, prevResult, changed, changedBetween>>

\* A facade that sets the process group up itself when it finds none.
ReturnedLazyInit ==
    /\ pc = "returned"
    /\ IF op = "dist_enabled"
       THEN pc' = "idle" /\ result' = RetBool(enabled = "True")
       ELSE IF enabled = "True"
       THEN pc' = "query" /\ result' = result
       ELSE pc' = "idle" /\ result' = Default(op)
    /\ initialized' = (initialized \/ (available /\ enabled = "False"))
    /\ sawDefault' = (sawDefault \/ enabled = "False")
    /\ UNCHANGED <<available, rank, world, fault, op, enabled, invoked>>
    /\ UNCHANGED <<prevOp, prevResult, changed, changedBetween>>

\* dist_enabled() has returned: to its caller outside, or to the `if` of
\* get_rank_safe / get_world_size_safe, which queries or returns the default.
Returned ==
    /\ pc = "returned"
    /\ IF op = "dist_enabled"
       THEN pc' = "idle" /\ result' = RetBool(enabled = "True")
       ELSE IF enabled = "True"
       THEN pc' = "query" /\ result' = result
       ELSE pc' = "idle" /\ result' = Default(op)
    /\ sawDefault' = (sawDefault \/ enabled = "False")
    /\ UNCHANGED <<available, initialized, rank, world, fault, op, enabled, invoked>>
    /\ UNCHANGED <<prevOp, prevResult, changed, changedBetween>>

QueryPrim(o) == IF o = "get_rank_safe" THEN "get_rank" ELSE "get_world_size"
QueryOutcomes(o) == IF o = "get_rank_safe" THEN get_rank ELSE get_world_size

\* The rank and the size returned one too high.
QueryOffByOne ==
    /\ pc = "query"
    /\ \E out \in QueryOutcomes(op) :
        /\ invoked' = Append(invoked, Invocation(QueryPrim(op), out))
        /\ result' = (IF out.kind = "int" THEN RetInt(out.n + 1) ELSE out)
    /\ pc' = "idle"
    /\ UNCHANGED <<available, initialized, rank, world, fault, op, enabled>>
    /\ UNCHANGED hist

\* `return dist.get_rank()` / `return dist.get_world_size()`: the value or
\* the exception of the primitive is the outcome of the call.
Query ==
    /\ pc = "query"
    /\ \E out \in QueryOutcomes(op) :
        /\ invoked' = Append(invoked, Invocation(QueryPrim(op), out))
        /\ result' = out
    /\ pc' = "idle"
    /\ UNCHANGED <<available, initialized, rank, world, fault, op, enabled>>
    /\ UNCHANGED hist

(***************************************************************************)
(* The external runtime's owner: code outside this module that sets the    *)
(* process group up and tears it down, and the failures of the runtime.    *)
(***************************************************************************)
InitProcessGroup(r, w) ==
    /\ pc = "idle"
    /\ ~initialized
    /\ initialized' = TRUE
    /\ rank' = r
    /\ world' = w
    /\ changed' = TRUE
    /\ UNCHANGED <<available, fault>>
    /\ UNCHANGED local
    /\ UNCHANGED <<prevOp, prevResult, changedBetween, sawDefault>>

DestroyProcessGroup ==
    /\ pc = "idle"
    /\ initialized
    /\ initialized' = FALSE
    /\ changed' = TRUE
    /\ UNCHANGED <<available, rank, world, fault>>
    /\ UNCHANGED local
    /\ UNCHANGED <<prevOp, prevResult, changedBetween, sawDefault>>

SetFault(f) ==
    /\ pc = "idle"
    /\ f # fault
    /\ fault' = f
    /\ changed' = TRUE
    /\ UNCHANGED <<available, initialized, rank, world>>
    /\ UNCHANGED local
    /\ UNCHANGED <<prevOp, prevResult, changedBetween, sawDefault>>

Init ==
    /\ available \in BOOLEAN
    /\ initialized = FALSE
    /\ rank = 0
    /\ world = 1
    /\ fault = NoFault
    /\ op = "none"
    /\ pc = "idle"
    /\ enabled = "unset"
    /\ result = NoResult
    /\ invoked = <<>>
    /\ prevOp = "none"
    /\ prevResult = NoResult
    /\ changed = FALSE
    /\ changedBetween = FALSE
    /\ sawDefault = FALSE

Next ==
    \/ \E o \in Ops : Call(o)
    \/ IsAvailable
    \/ IsInitialized
    \/ Returned
    \/ Query
    \/ \E w \in 1..MaxWorld : \E r \in 0..(w - 1) : InitProcessGroup(r, w)
    \/ DestroyProcessGroup
    \/ \E f \in Faults : SetFault(f)

Spec == Init /\ [][Next]_vars

TypeOK ==
    /\ available \in BOOLEAN /\ initialized \in BOOLEAN
    /\ world \in 1..MaxWorld /\ rank \in 0..(world - 1)
    /\ fault \in Faults
    /\ op \in Ops \cup {"none"}
    /\ pc \in {"idle", "is_available", "is_initialized", "returned", "query"}
    /\ enabled \in {"unset", "True", "False"}
    /\ Len(invoked) <= 3

(***************************************************************************)
(* Properties.                                                             *)
(***************************************************************************)

\* A call has completed and the external state is still the one it ran in.
Done == pc = "idle" /\ result.kind # "none" /\ ~changed

Checks == {"is_available", "is_initialized"}
Queries == {"get_rank", "get_world_size"}

\* The runtime reports unavailable, or available and not initialized.
ReportsInactive ==
    \/ fault.prim # "is_available" /\ ~available
    \/ fault.prim \notin Checks /\ available /\ ~initialized

\* The runtime reports available and initialized.
ReportsActive == fault.prim \notin Checks /\ available /\ initialized

\* C1: whenever the runtime reports unavailable or not initialized,
\* dist_enabled() returns False, get_rank_safe() returns 0 and
\* get_world_size_safe() returns 1.
C1_DefaultsWhenInactive ==
    (Done /\ ReportsInactive) =>
        /\ op = "dist_enabled" => result = RetBool(FALSE)
        /\ op = "get_rank_safe" => result = RetInt(0)
        /\ op = "get_world_size_safe" => result = RetInt(1)

C1_Witness ==
    /\ Done /\ ~available /\ fault = NoFault
    /\ op = "get_world_size_safe" /\ result = RetInt(1)
    /\ prevOp = "get_rank_safe" /\ prevResult = RetInt(0) /\ ~changedBetween

\* C2: whenever the runtime reports available and initialized with rank R
\* and world size W, dist_enabled() returns True, get_rank_safe() returns
\* exactly R and get_world_size_safe() returns exactly W.
C2_DelegatesWhenActive ==
    (Done /\ ReportsActive) =>
        /\ op = "dist_enabled" => result = RetBool(TRUE)
        /\ (op = "get_rank_safe" /\ fault.prim # "get_rank")
              => result = RetInt(rank)
        /\ (op = "get_world_size_safe" /\ fault.prim # "get_world_size")
              => result = RetInt(world)

C2_Witness ==
    /\ Done /\ available /\ initialized /\ fault = NoFault
    /\ rank = 2 /\ world = 3
    /\ op = "get_rank_safe" /\ result = RetInt(2)

\* C3: dist_enabled() returns True exactly when the runtime reports both
\* available and initialized, and False for the three other combinations.
C3_EnabledIffBoth ==
    (Done /\ op = "dist_enabled" /\ fault = NoFault) =>
        /\ result.kind = "bool"
        /\ result.b <=> (available /\ initialized)

C3_Witness ==
    /\ Done /\ op = "dist_enabled" /\ fault = NoFault
    /\ available /\ ~initialized /\ result = RetBool(FALSE)

C5_ExternalStateUntouched ==
    [][(pc # "idle" \/ pc' # "idle") => UNCHANGED ext]_vars

C5_Witness ==
    /\ pc = "idle" /\ result.kind = "int" /\ prevResult.kind = "bool"
    /\ op = "get_world_size_safe" /\ initialized /\ available

\* C6: the same function called twice in a row, the external state unchanged
\* between and during the calls, gives the same outcome both times.
C6_Idempotent ==
    (Done /\ op = prevOp /\ ~changedBetween) => result = prevResult

C6_Witness ==
    /\ Done /\ op = prevOp /\ ~changedBetween
    /\ op = "get_rank_safe" /\ result = RetInt(1) /\ prevResult = RetInt(1)

\* C7: results are not cached: after earlier calls returned the defaults,
\* a call made while the runtime reports initialized returns True / R / W.
C7_NoCaching ==
    (Done /\ sawDefault /\ ReportsActive /\ fault.prim \notin Queries) =>
        result = (IF op = "dist_enabled" THEN RetBool(TRUE)
                  ELSE IF op = "get_rank_safe" THEN RetInt(rank)
                  ELSE RetInt(world))

C7_Witness ==
    /\ Done /\ sawDefault /\ available /\ initialized
    /\ prevOp = "get_world_size_safe" /\ prevResult = RetInt(1)
    /\ op = "get_world_size_safe" /\ result = RetInt(2)

\* C8: when a primitive of the runtime raises during a call, the call ends
\* there with that very exception as its outcome, and the external state is
\* left as it was.
C8_FailurePropagates ==
    [][(/\ pc # "idle"
        /\ Len(invoked') > Len(invoked)
        /\ invoked'[Len(invoked')].out.kind = "raise")
       => (/\ pc' = "idle"
           /\ result' = invoked'[Len(invoked')].out
           /\ result' = Raise(fault.err)
           /\ UNCHANGED ext)]_vars

C8_Witness ==
    /\ pc = "idle" /\ op = "get_rank_safe" /\ Len(invoked) = 3
    /\ result = Raise("ValueError") /\ invoked[3].out = result

\* C9: get_rank_safe() is never negative, get_world_size_safe() is at least
\* 1, and evaluated against the same external state the rank is below the
\* world size.
C9_RankBelowWorldSize ==
    /\ (Done /\ op = "get_rank_safe" /\ result.kind = "int") => result.n >= 0
    /\ (Done /\ op = "get_world_size_safe" /\ result.kind = "int")
          => result.n >= 1
    /\ (/\ Done /\ ~changedBetween
        /\ result.kind = "int" /\ prevResult.kind = "int"
        /\ op = "get_world_size_safe" /\ prevOp = "get_rank_safe")
          => prevResult.n < result.n
    /\ (/\ Done /\ ~changedBetween
        /\ result.kind = "int" /\ prevResult.kind = "int"
        /\ op = "get_rank_safe" /\ prevOp = "get_world_size_safe")
          => result.n < prevResult.n

C9_Witness ==
    /\ Done /\ ~changedBetween /\ ~initialized
    /\ op = "get_rank_safe" /\ prevOp = "get_world_size_safe"
    /\ result = RetInt(0) /\ prevResult = RetInt(1)

\* C10: when the process group is torn down after dist_enabled() returned
\* True and before a get_rank_safe() / get_world_size_safe() call begins,
\* that call returns the default and invokes no rank or world-size query.
C10_RechecksAfterTeardown ==
    (/\ Done /\ op \in {"get_rank_safe", "get_world_size_safe"}
     /\ prevOp = "dist_enabled" /\ prevResult = RetBool(TRUE)
     /\ changedBetween /\ ReportsInactive)
       => /\ result = (IF op = "get_rank_safe" THEN RetInt(0) ELSE RetInt(1))
          /\ \A i \in DOMAIN invoked : invoked[i].prim \notin Queries

C10_Witness ==
    /\ Done /\ op = "get_rank_safe" /\ result = RetInt(0)
    /\ prevOp = "dist_enabled" /\ prevResult = RetBool(TRUE)
    /\ changedBetween /\ available /\ ~initialized /\ rank = 1
====
